---- MODULE Spec2Model ----
(***************************************************************************)
(* Model of app.py: the Langflow chat front-end.                           *)
(*                                                                         *)
(*  - Python strings are sequences of one-character strings, so that       *)
(*    str.strip(), len() and the UUID regex are computed, not assumed.     *)
(*  - JSON values (what r.json() returns) are tagged records:              *)
(*      None, Str(s), Num(n), List(items), Dict(pairs)                     *)
(*    a dict keeps its (key, value) pairs in insertion order.              *)
(*  - Spec        is the Streamlit script: one action per script run.      *)
(*  - ExtractSpec applies extract_langflow_text to one response drawn      *)
(*    from a pool of JSON values.                                          *)
(***************************************************************************)
EXTENDS Integers, Sequences, FiniteSets, TLC

VARIABLES
    api_key,        \* LANGFLOW_API_KEY (os.getenv result)
    keys,           \* the keys present in st.session_state
    session_id,     \* st.session_state.session_id
    chat_history,   \* st.session_state.chat_history
    user_input,     \* the script's local user_input of the last run
    r,              \* the requests.Response of the last run (or NoResponse)
    raw,            \* the script's local raw (or NoRaw)
    exc,            \* str(e) of the exception caught at the turn boundary
    requests,       \* every payload handed to requests.post, in order
    resp,           \* ExtractSpec: the argument of extract_langflow_text
    out,            \* ExtractSpec: its return value
    stage,          \* ExtractSpec: which return statement produced it
    cand            \* ExtractSpec: the candidate the structured path accepted

vars == <<api_key, keys, session_id, chat_history, user_input, r, raw, exc,
          requests, resp, out, stage, cand>>

uiVars == <<api_key, keys, session_id, chat_history, user_input, r, raw, exc,
            requests>>

exVars == <<resp, out, stage, cand>>

(***************************************************************************)
(* Bounds                                                                  *)
(***************************************************************************)
MaxTurns == 2

(***************************************************************************)
(* Python values                                                           *)
(***************************************************************************)
None == [t |-> "null"]

Str(s) == [t |-> "str", s |-> s]

Num(n) == [t |-> "num", n |-> n]

List(items) == [t |-> "list", items |-> items]

Dict(pairs) == [t |-> "dict", pairs |-> pairs]

IsStr(v) == v.t = "str"

IsDict(v) == v.t = "dict"

IsList(v) == v.t = "list"

\* Python truthiness, as used by `if x`, `x and ...`, `x or y`
Truthy(v) ==
    CASE v.t = "null" -> FALSE
      [] v.t = "str"  -> v.s # <<>>
      [] v.t = "num"  -> v.n # 0
      [] v.t = "list" -> v.items # <<>>
      [] v.t = "dict" -> v.pairs # <<>>
      [] OTHER        -> TRUE

\* a or b
Or(a, b) == IF Truthy(a) THEN a ELSE b

HasKey(d, k) == \E i \in 1..Len(d.pairs) : d.pairs[i][1] = k

\* d.get(k)
Get(d, k) ==
    IF HasKey(d, k)
    THEN d.pairs[CHOOSE i \in 1..Len(d.pairs) : d.pairs[i][1] = k][2]
    ELSE None

(***************************************************************************)
(* str.strip()                                                             *)
(***************************************************************************)
IsSpace(c) == c \in {" ", "\t", "\n", "\r"}

RECURSIVE LStrip(_)
LStrip(s) ==
    IF s # <<>> /\ IsSpace(Head(s)) THEN LStrip(Tail(s)) ELSE s

RECURSIVE RStrip(_)
RStrip(s) ==
    IF s # <<>> /\ IsSpace(s[Len(s)]) THEN RStrip(SubSeq(s, 1, Len(s) - 1)) ELSE s

strip(s) == RStrip(LStrip(s))

(***************************************************************************)
(* is_uuid                                                                 *)
(***************************************************************************)
HexDigits ==
    {"0", "1", "2", "3", "4", "5", "6", "7", "8", "9",
     "a", "b", "c", "d", "e", "f", "A", "B", "C", "D", "E", "F"}

\* _uuid_regex.fullmatch(s): 8-4-4-4-12 hex digits
uuid_fullmatch(s) ==
    /\ Len(s) = 8 + 1 + 4 + 1 + 4 + 1 + 4 + 1 + 12
    /\ \A i \in 1..Len(s) :
          IF i \in {9, 14, 19, 24} THEN s[i] = "-" ELSE s[i] \in HexDigits

is_uuid(s) == uuid_fullmatch(strip(s))

(***************************************************************************)
(* extract_langflow_text, step 1: the structured outputs path              *)
(***************************************************************************)
NoCand == [t |-> "nocand"]

\* `c and isinstance(c, str) and not is_uuid(c)`
Acceptable(c) == Truthy(c) /\ IsStr(c) /\ ~is_uuid(c.s)

Accept(c) == IF Acceptable(c) THEN c ELSE NoCand

\* a) out['outputs'] -> message -> message / text
ProbeA(o) ==
    LET o_outputs == Get(o, "outputs") IN
    IF ~IsDict(o_outputs) THEN NoCand
    ELSE LET msg_obj == Get(o_outputs, "message") IN
         IF ~IsDict(msg_obj) THEN NoCand
         ELSE Accept(Or(Get(msg_obj, "message"), Get(msg_obj, "text")))

\* b) out['messages'] -> first -> message
ProbeB(o) ==
    LET msgs == Get(o, "messages") IN
    IF ~(IsList(msgs) /\ Len(msgs.items) > 0) THEN NoCand
    ELSE LET first == msgs.items[1] IN
         IF ~IsDict(first) THEN NoCand
         ELSE Accept(Get(first, "message"))

\* c) out['artifacts'].message
ProbeC(o) ==
    LET artifacts == Get(o, "artifacts") IN
    IF ~IsDict(artifacts) THEN NoCand
    ELSE Accept(Get(artifacts, "message"))

\* d) out['results']['message']['data']['text'], then text / default_value
ProbeD(o) ==
    LET results == Get(o, "results") IN
    IF ~IsDict(results) THEN NoCand
    ELSE LET msg == Get(results, "message") IN
         IF ~IsDict(msg) THEN NoCand
         ELSE LET data == Get(msg, "data")
                  txt  == IF IsDict(data) THEN Accept(Get(data, "text")) ELSE NoCand
              IN  IF txt # NoCand THEN txt
                  ELSE Accept(Or(Get(msg, "text"), Get(msg, "default_value")))

\* the body of `for out in outputs`
ProbeItem(o) ==
    IF ~IsDict(o) THEN NoCand
    ELSE IF ProbeA(o) # NoCand THEN ProbeA(o)
    ELSE IF ProbeB(o) # NoCand THEN ProbeB(o)
    ELSE IF ProbeC(o) # NoCand THEN ProbeC(o)
    ELSE ProbeD(o)

RECURSIVE ProbeOutputs(_)
ProbeOutputs(items) ==
    IF items = <<>> THEN NoCand
    ELSE IF ProbeItem(Head(items)) # NoCand THEN ProbeItem(Head(items))
    ELSE ProbeOutputs(Tail(items))

\* the candidate whose strip() step 1 returns, NoCand when step 1 falls through
StructuredCandidate(x) ==
    LET outputs == IF IsDict(x) THEN Get(x, "outputs") ELSE None IN
    IF Truthy(outputs) /\ IsList(outputs) THEN ProbeOutputs(outputs.items)
    ELSE NoCand

(***************************************************************************)
(* step 2: quick top-level keys                                            *)
(***************************************************************************)
ShallowKeys == <<"message", "text", "output", "result">>

\* mutant of ShallowScan: empty strings are passed over, as in step 1
RECURSIVE ShallowScanTruthy(_, _)
ShallowScanTruthy(x, ks) ==
    IF ks = <<>> THEN [t |-> "nocand"]
    ELSE LET v == Get(x, Head(ks)) IN
         IF Truthy(v) /\ IsStr(v) /\ ~is_uuid(v.s) THEN v
         ELSE ShallowScanTruthy(x, Tail(ks))

RECURSIVE ShallowScan(_, _)
ShallowScan(x, ks) ==
    IF ks = <<>> THEN NoCand
    ELSE LET v == Get(x, Head(ks)) IN
         IF IsStr(v) /\ ~is_uuid(v.s) THEN v ELSE ShallowScan(x, Tail(ks))

ShallowCandidate(x) == IF IsDict(x) THEN ShallowScan(x, ShallowKeys) ELSE NoCand

(***************************************************************************)
(* step 3: recursive fallback, the longest non-UUID string (>10 chars)     *)
(***************************************************************************)
\* mutant of Replaces: an equally long string replaces the current one
ReplacesOrEqual(s, longest) == Len(s) >= Len(longest) /\ Len(s) > 10

Replaces(s, longest) == Len(s) > Len(longest) /\ Len(s) > 10

RECURSIVE walk(_, _), walkAll(_, _)
walk(x, longest) ==
    CASE x.t = "null" -> longest
      [] x.t = "str"  ->
            LET s == strip(x.s) IN
            IF s = <<>> THEN longest
            ELSE IF is_uuid(s) THEN longest
            ELSE IF Replaces(s, longest) THEN s
            ELSE longest
      [] x.t = "dict" -> walkAll([i \in 1..Len(x.pairs) |-> x.pairs[i][2]], longest)
      [] x.t = "list" -> walkAll(x.items, longest)
      [] OTHER        -> longest

walkAll(xs, longest) ==
    IF xs = <<>> THEN longest
    ELSE walkAll(Tail(xs), walk(Head(xs), longest))

Fallback(x) == strip(walk(x, <<>>))

(***************************************************************************)
(* extract_langflow_text                                                   *)
(***************************************************************************)
extract_langflow_text(x) ==
    IF x = None THEN <<>>
    ELSE IF StructuredCandidate(x) # NoCand THEN strip(StructuredCandidate(x).s)
    ELSE IF ShallowCandidate(x) # NoCand THEN strip(ShallowCandidate(x).s)
    ELSE Fallback(x)

\* which return statement of extract_langflow_text produces the result
ReturnSite(x) ==
    IF x = None THEN "null"
    ELSE IF StructuredCandidate(x) # NoCand THEN "structured"
    ELSE IF ShallowCandidate(x) # NoCand THEN "shallow"
    ELSE "fallback"

(***************************************************************************)
(* Sample strings                                                          *)
(***************************************************************************)
UuidS == <<"a","8","b","8","9","4","b","c","-","5","7","9","1","-","4","e","b","9","-","a","9","2","5","-","3","a","8","1","3","6","8","7","2","9","4","4">>

UuidUpper == <<"3","F","2","5","0","4","E","0","-","4","F","8","9","-","4","1","D","3","-","9","A","0","C","-","0","3","0","5","E","8","2","C","3","3","0","1">>

UuidPadded == <<" ">> \o UuidS \o <<" ">>

Blank == <<" ", " ">>

Hello11 == <<"h","e","l","l","o"," ","w","o","r","l","d">>

HELLO11 == <<"H","E","L","L","O"," ","W","O","R","L","D">>

Digits10 == <<"0","1","2","3","4","5","6","7","8","9">>

Padded12 == <<" "," ","h","e","l","l","o"," ","w","o","r","l","d","!"," "," ">>

Word5 == <<"w","o","r","d","s">>

\* the text placed at probed location k of a sample item
GoodAt(k) == <<" ", "g", <<"1","2","3","4","5","6","7">>[k]>>

(***************************************************************************)
(* Sample responses for ExtractSpec                                        *)
(***************************************************************************)
MaxItems == 2

Choices == {"absent", "good", "bad"}

BadValues == {Str(UuidS), Str(UuidPadded), Str(<<>>), Str(Blank), Num(7), Num(0)}

\* the (key, value) pair of a location under choice c, nothing when absent
KV(key, c, good, bad) ==
    IF c = "absent" THEN <<>>
    ELSE << <<key, IF c = "good" THEN Str(good) ELSE bad>> >>

\* an item of `outputs` with the seven probed locations filled as f says
ItemOf(f, bad) ==
    Dict(<<
      <<"outputs", Dict(<< <<"message",
            Dict(KV("message", f[1], GoodAt(1), bad) \o KV("text", f[2], GoodAt(2), bad))>> >>)>>,
      <<"messages", List(<<Dict(KV("message", f[3], GoodAt(3), bad))>>)>>,
      <<"artifacts", Dict(KV("message", f[4], GoodAt(4), bad))>>,
      <<"results", Dict(<< <<"message",
            Dict(<< <<"data", Dict(KV("text", f[5], GoodAt(5), bad))>> >>
                 \o KV("text", f[6], GoodAt(6), bad)
                 \o KV("default_value", f[7], GoodAt(7), bad))>> >>)>>
    >>)

FullItems == {ItemOf(f, bad) : f \in [1..7 -> Choices], bad \in BadValues}

\* items with one location filled, and items of the wrong shape
OnlyAt(k, c) == [i \in 1..7 |-> IF i = k THEN c ELSE "absent"]

SmallItems ==
    {ItemOf(OnlyAt(k, c), Str(UuidS)) : k \in 1..7, c \in {"good", "bad"}}
    \cup {Str(Hello11), None, Dict(<<>>),
          Dict(<< <<"outputs", Str(Hello11)>>, <<"messages", List(<<>>)>> >>),
          Dict(<< <<"messages", List(<<Str(HELLO11)>>)>>, <<"artifacts", Str(Hello11)>> >>),
          Dict(<< <<"results", Dict(<< <<"message", Str(Hello11)>> >>)>> >>)}

ItemLists == UNION {[1..n -> SmallItems] : n \in 0..MaxItems}

StructuredPool ==
    {Dict(<< <<"outputs", List(<<it>>)>> >>) : it \in FullItems}
    \cup {Dict(<< <<"outputs", List(its)>>, <<"text", Str(Word5)>> >>) : its \in ItemLists}
    \cup {Dict(<< <<"outputs", List(its)>> >>) : its \in ItemLists}

ShallowChoices == {"absent", "good", "uuid", "num", "empty"}

ShallowPairs(key, c, k) ==
    CASE c = "absent" -> <<>>
      [] c = "good"   -> << <<key, Str(GoodAt(k))>> >>
      [] c = "uuid"   -> << <<key, Str(UuidUpper)>> >>
      [] c = "num"    -> << <<key, Num(7)>> >>
      [] c = "empty"  -> << <<key, Str(<<>>)>> >>

ShallowPool ==
    {Dict(pre \o ShallowPairs("result", g[4], 4) \o ShallowPairs("output", g[3], 3)
              \o ShallowPairs("text", g[2], 2) \o ShallowPairs("message", g[1], 1)) :
        g \in [1..4 -> ShallowChoices],
        pre \in {<<>>,
                 << <<"data", Dict(<< <<"note", Str(Padded12)>> >>)>> >>,
                 << <<"outputs", Str(Hello11)>> >>,
                 << <<"outputs", List(<<>>)>> >>}}

WalkStrings ==
    {UuidS, UuidPadded, <<>>, Blank, Word5, Digits10, Hello11, HELLO11, Padded12}

WalkPool ==
    {Str(a) : a \in WalkStrings}
    \cup {List(<<Str(a), Num(7), List(<<Str(b), None>>)>>) : a, b \in WalkStrings}
    \cup {Dict(<< <<"id", Str(UuidS)>>, <<"x", Str(a)>>,
                  <<"y", List(<<Dict(<< <<"z", Str(b)>> >>), Str(c)>>)>> >>) :
             a, b, c \in WalkStrings}
    \cup {None, Num(7), List(<<>>), Dict(<<>>)}

Pool == StructuredPool \cup ShallowPool \cup WalkPool

(***************************************************************************)
(* ExtractSpec: extract_langflow_text applied to one sample response       *)
(***************************************************************************)
NoRaw == [t |-> "unset"]

NoResponse == [t |-> "unset"]

UiIdle ==
    /\ keys = {}
    /\ session_id = None
    /\ chat_history = <<>>
    /\ user_input = None
    /\ r = NoResponse
    /\ raw = NoRaw
    /\ exc = None
    /\ requests = <<>>

InitExtract ==
    /\ api_key = None
    /\ UiIdle
    /\ resp \in Pool
    /\ out = <<>>
    /\ stage = "start"
    /\ cand = NoCand

Extract ==
    /\ stage = "start"
    /\ out' = extract_langflow_text(resp)
    /\ stage' = ReturnSite(resp)
    /\ cand' = StructuredCandidate(resp)
    /\ UNCHANGED <<resp, uiVars>>

NextExtract == Extract

ExtractSpec == InitExtract /\ [][NextExtract]_vars

(***************************************************************************)
(* call_langflow_api                                                       *)
(***************************************************************************)
ConfigErrorText == <<"L","A","N","G","F","L","O","W","_","A","P","I","_","K","E","Y"," ","e","n","v","i","r","o","n","m","e","n","t"," ","v","a","r","i","a","b","l","e"," ","i","s"," ","n","o","t"," ","s","e","t","."," ","S","e","t"," ","i","t"," ","a","n","d"," ","r","e","-","r","u","n"," ","t","h","e"," ","a","p","p",".">>

HttpErrorPrefix == <<"L","a","n","g","f","l","o","w"," ","A","P","I"," ","r","e","t","u","r","n","e","d"," ","H","T","T","P"," ">>

\* mutant of KeyMissing: `if LANGFLOW_API_KEY is None`
KeyMissingNoneOnly(k) == k = None

\* `if not LANGFLOW_API_KEY`
KeyMissing(k) == ~Truthy(k)

\* the JSON payload; fresh is what uuid.uuid4() would give
Payload(user_message, sid, fresh) ==
    [output_type |-> "chat", input_type |-> "chat",
     input_value |-> user_message, session_id |-> Or(sid, Str(fresh))]

\* str(n) of a status code
RECURSIVE IntToStr(_)
IntToStr(n) ==
    LET d == <<"0","1","2","3","4","5","6","7","8","9">>[(n % 10) + 1] IN
    IF n < 10 THEN <<d>> ELSE Append(IntToStr(n \div 10), d)

\* r.raise_for_status() raises HTTPError for 4xx and 5xx, and for nothing else
RaisesForStatus(status) == 400 <= status /\ status < 600

\* f"Langflow API returned HTTP {r.status_code}: {body}"
HttpErrorText(res) == HttpErrorPrefix \o IntToStr(res.status) \o <<":", " ">> \o res.text

NoJson == [t |-> "invalid"]

\* `try: return r.json()  except ValueError: return {"raw_text": r.text}`
ParsedBody(res) ==
    IF res.json = NoJson THEN Dict(<< <<"raw_text", Str(res.text)>> >>) ELSE res.json

(***************************************************************************)
(* The turn handler of the script                                          *)
(***************************************************************************)
ErrorPrefix == <<"E","r","r","o","r"," ","c","a","l","l","i","n","g"," ","L","a","n","g","f","l","o","w"," ","A","P","I",":"," ">>

Placeholder == <<"N","o"," ","h","u","m","a","n","-","r","e","a","d","a","b","l","e"," ","a","n","s","w","e","r"," ","f","o","u","n","d",".">>

\* mutant of BotAnswer: the raw_text fallback is skipped
BotAnswerNoRawText(x) ==
    LET bot_answer == extract_langflow_text(x) IN
    IF bot_answer # <<>> THEN Str(bot_answer) ELSE Str(Placeholder)

\* bot_answer after a successful call
BotAnswer(x) ==
    LET bot_answer == extract_langflow_text(x) IN
    IF bot_answer # <<>> THEN Str(bot_answer)
    ELSE IF IsDict(x) /\ HasKey(x, "raw_text") THEN Get(x, "raw_text")
    ELSE Str(Placeholder)

\* mutant of ErrorAnswer: the message without its prefix
ErrorAnswerBare(e) == Str(e)

\* bot_answer in `except Exception as e`
ErrorAnswer(e) == Str(ErrorPrefix \o e)

\* mutant of WithTurn: the bot turn is appended before the user turn
WithTurnBotFirst(history, u, bot_answer) ==
    Append(Append(history, <<"bot", bot_answer>>), <<"user", u>>)

\* the two appends of a turn
WithTurn(history, u, bot_answer) ==
    Append(Append(history, <<"user", u>>), <<"bot", bot_answer>>)

(***************************************************************************)
(* The environment: what the user types and what the network does          *)
(***************************************************************************)
ApiKeys == {None, Str(<<>>), Str(<<"k","e","y">>)}

NewUuids == {UuidS, UuidUpper}

UserInputs == {Str(<<"h","i">>), Str(<<"w","h","y","?">>)}

TransportErrors == {<<"t","i","m","e","d"," ","o","u","t">>}

HelloBody == <<"{","\"","o","u","t","p","u","t","s","\"",":","[","{","\"","o","u","t","p","u","t","s","\"",":","{","\"","m","e","s","s","a","g","e","\"",":","{","\"","m","e","s","s","a","g","e","\"",":","\"","H","e","l","l","o"," ","t","h","e","r","e","\"","}","}","}","]","}">>

HelloJson ==
    Dict(<< <<"outputs", List(<<Dict(<< <<"outputs", Dict(<< <<"message",
        Dict(<< <<"message", Str(<<"H","e","l","l","o"," ","t","h","e","r","e">>)>> >>)>> >>)>> >>)>>)>> >>)

\* response bodies: the text and what r.json() makes of it
Bodies ==
    {[text |-> HelloBody, json |-> HelloJson],
     [text |-> <<"n","o","t"," ","j","s","o","n"," ","a","t"," ","a","l","l">>, json |-> NoJson],
     [text |-> <<"O","K">>, json |-> NoJson],
     [text |-> <<>>, json |-> NoJson],
     [text |-> <<"{","}">>, json |-> Dict(<<>>)],
     [text |-> <<"{","\"","r","a","w","_","t","e","x","t","\"",":","\"","h","m","\"","}">>,
      json |-> Dict(<< <<"raw_text", Str(<<"h","m">>)>> >>)],
     [text |-> <<"n","u","l","l">>, json |-> None]}

Statuses == {200, 201, 304, 404}

Responses == {[status |-> st, text |-> b.text, json |-> b.json] : st \in Statuses, b \in Bodies}

(***************************************************************************)
(* Spec: the Streamlit script, one action per run                          *)
(***************************************************************************)
Init ==
    /\ api_key \in ApiKeys
    /\ UiIdle
    /\ resp = None
    /\ out = <<>>
    /\ stage = "off"
    /\ cand = NoCand

\* mutant of InitSession: the identifier is regenerated on every run
InitSessionAlways(fresh) ==
    /\ keys' = keys \cup {"session_id", "chat_history"}
    /\ session_id' = Str(fresh)
    /\ UNCHANGED <<api_key, exVars>>

\* create session_id and chat_history in st.session_state when missing
InitSession(fresh) ==
    /\ keys' = keys \cup {"session_id", "chat_history"}
    /\ session_id' = IF "session_id" \in keys THEN session_id ELSE Str(fresh)
    /\ UNCHANGED <<api_key, exVars>>

\* chat_history as the turn handler finds it
History == IF "chat_history" \in keys THEN chat_history ELSE <<>>

CanSubmit == Len(History) < 2 * MaxTurns

\* a run with nothing submitted
PageRun ==
    /\ \E fresh \in NewUuids : InitSession(fresh)
    /\ chat_history' = History
    /\ user_input' = None
    /\ r' = NoResponse
    /\ raw' = NoRaw
    /\ exc' = None
    /\ UNCHANGED requests

\* a turn whose call raises the configuration error
TurnConfigError ==
    /\ CanSubmit
    /\ KeyMissing(api_key)
    /\ \E fresh \in NewUuids : InitSession(fresh)
    /\ \E u \in UserInputs :
          /\ user_input' = u
          /\ exc' = Str(ConfigErrorText)
          /\ chat_history' = WithTurn(History, u, ErrorAnswer(ConfigErrorText))
    /\ r' = NoResponse
    /\ raw' = NoRaw
    /\ UNCHANGED requests

\* a turn whose requests.post raises (connection failure, timeout)
TurnTransportError ==
    /\ CanSubmit
    /\ ~KeyMissing(api_key)
    /\ \E fresh \in NewUuids : InitSession(fresh)
    /\ \E u \in UserInputs, fresh \in NewUuids, e \in TransportErrors :
          /\ user_input' = u
          /\ requests' = Append(requests, Payload(u, session_id', fresh))
          /\ exc' = Str(e)
          /\ chat_history' = WithTurn(History, u, ErrorAnswer(e))
    /\ r' = NoResponse
    /\ raw' = NoRaw

\* a turn whose request is answered with a status that raise_for_status rejects
TurnHttpError ==
    /\ CanSubmit
    /\ ~KeyMissing(api_key)
    /\ \E fresh \in NewUuids : InitSession(fresh)
    /\ \E u \in UserInputs, fresh \in NewUuids, res \in Responses :
          /\ RaisesForStatus(res.status)
          /\ user_input' = u
          /\ requests' = Append(requests, Payload(u, session_id', fresh))
          /\ r' = res
          /\ exc' = Str(HttpErrorText(res))
          /\ chat_history' = WithTurn(History, u, ErrorAnswer(HttpErrorText(res)))
    /\ raw' = NoRaw

\* a turn whose call returns
TurnAnswered ==
    /\ CanSubmit
    /\ ~KeyMissing(api_key)
    /\ \E fresh \in NewUuids : InitSession(fresh)
    /\ \E u \in UserInputs, fresh \in NewUuids, res \in Responses :
          /\ ~RaisesForStatus(res.status)
          /\ user_input' = u
          /\ requests' = Append(requests, Payload(u, session_id', fresh))
          /\ r' = res
          /\ raw' = ParsedBody(res)
          /\ chat_history' = WithTurn(History, u, BotAnswer(ParsedBody(res)))
    /\ exc' = None

Next ==
    \/ PageRun
    \/ TurnConfigError
    \/ TurnTransportError
    \/ TurnHttpError
    \/ TurnAnswered

Spec == Init /\ [][Next]_vars

(***************************************************************************)
(* Properties of the script (checked under Spec)                           *)
(***************************************************************************)
Alternating(h) ==
    /\ Len(h) % 2 = 0
    /\ \A i \in 1..Len(h) : h[i][1] = (IF i % 2 = 1 THEN "user" ELSE "bot")

\* C1: whatever the outcome of each turn, the history alternates user, bot,
\* user, bot, ...; a run that submits a turn appends exactly that user turn and
\* then one bot turn to the history as it was, and a run that submits nothing
\* leaves the history alone: nothing is lost or reordered.
C1_HistoryAlternates ==
    [][ /\ Alternating(chat_history')
        /\ IF user_input' # None
           THEN /\ Len(chat_history') = Len(History) + 2
                /\ SubSeq(chat_history', 1, Len(History)) = History
                /\ chat_history'[Len(History) + 1] = <<"user", user_input'>>
                /\ chat_history'[Len(History) + 2][1] = "bot"
           ELSE chat_history' = History ]_vars

C1_Witness ==
    /\ Len(chat_history) >= 4
    /\ chat_history[1][2] # chat_history[3][2]
    /\ chat_history[2][2] = Str(Placeholder)
    /\ exc # None

\* C5: with the shared secret absent, every turn ends in the configuration
\* error and no request is ever handed to the network.
C5_NoKeyNoRequest ==
    api_key \in {None, Str(<<>>)} =>
        /\ requests = <<>>
        /\ r = NoResponse
        /\ user_input # None => exc = Str(ConfigErrorText)

C5_Witness ==
    /\ api_key = Str(<<>>)
    /\ Len(chat_history) >= 4
    /\ exc = Str(ConfigErrorText)
    /\ requests = <<>>

\* C6: once the session has an identifier it never changes, it is a UUID
\* created by the run that found none, and every request sent so far carries
\* it as session_id.
C6_SessionIdStable ==
    [][ /\ session_id # None => session_id' = session_id
        /\ session_id = None => (IsStr(session_id') /\ is_uuid(session_id'.s))
        /\ \A i \in 1..Len(requests') : requests'[i].session_id = session_id' ]_vars

C6_Witness ==
    /\ Len(requests) >= 2
    /\ requests[1].session_id = session_id
    /\ requests[2].session_id = session_id
    /\ requests[1].input_value # requests[2].input_value

\* C9: a turn whose client call raised appends, to the history as it was, the
\* user turn and one bot turn reading "Error calling Langflow API: <str(e)>";
\* and a turn submitted after a failed one is accepted on top of that history.
C9_FailureIsCaught ==
    [][ /\ exc' # None =>
              /\ user_input' # None
              /\ chat_history' = History \o << <<"user", user_input'>>,
                                              <<"bot", Str(ErrorPrefix \o exc'.s)>> >>
        /\ (exc # None /\ user_input' # None) =>
              /\ Len(chat_history') = Len(chat_history) + 2
              /\ SubSeq(chat_history', 1, Len(chat_history)) = chat_history ]_vars

C9_Witness ==
    /\ Len(chat_history) >= 4
    /\ r # NoResponse
    /\ exc # None
    /\ chat_history[2][2] = Str(ErrorPrefix \o ConfigErrorText)
       \/ chat_history[2][2] = Str(ErrorPrefix \o <<"t","i","m","e","d"," ","o","u","t">>)

LastText == chat_history[Len(chat_history)][2]

\* C10: after a call that returned, the bot turn is the extracted text when
\* that is non-empty; otherwise raw's raw_text when raw is an object that has
\* one; otherwise the placeholder.
C10_EmptyExtractionFallback ==
    (user_input # None /\ raw # NoRaw) =>
        /\ chat_history[Len(chat_history)][1] = "bot"
        /\ extract_langflow_text(raw) # <<>> =>
              LastText = Str(extract_langflow_text(raw))
        /\ (extract_langflow_text(raw) = <<>> /\ IsDict(raw) /\ HasKey(raw, "raw_text")) =>
              LastText = Get(raw, "raw_text")
        /\ (extract_langflow_text(raw) = <<>> /\ ~(IsDict(raw) /\ HasKey(raw, "raw_text"))) =>
              LastText = Str(Placeholder)

C10_Witness ==
    /\ raw # NoRaw
    /\ r # NoResponse
    /\ r.json = NoJson
    /\ extract_langflow_text(raw) = <<>>
    /\ LastText = Str(<<"O","K">>)

\* C4: every answered request whose status is not 2xx ends in the error
\* "Langflow API returned HTTP <status>: <body>", and only a 2xx status makes
\* the call return (the parsed body, or the body wrapped as raw_text).
C4_NonSuccessStatusFails ==
    r # NoResponse =>
        IF r.status \in 200..299
        THEN /\ exc = None
             /\ raw = (IF r.json = NoJson
                       THEN Dict(<< <<"raw_text", Str(r.text)>> >>) ELSE r.json)
        ELSE /\ raw = NoRaw
             /\ exc = Str(HttpErrorPrefix \o IntToStr(r.status) \o <<":", " ">> \o r.text)

(***************************************************************************)
(* Properties of extract_langflow_text (checked under ExtractSpec)         *)
(***************************************************************************)
\* C2: a candidate accepted by the structured path is a non-empty string, not
\* a UUID, non-empty after trimming, and the result is the trimmed candidate;
\* so the structured path never returns the empty string.
C2_StructuredNeverEmpty ==
    stage = "structured" =>
        /\ IsStr(cand)
        /\ cand.s # <<>>
        /\ ~is_uuid(cand.s)
        /\ strip(cand.s) # <<>>
        /\ out = strip(cand.s)
        /\ out # <<>>

RECURSIVE PathGet(_, _)
PathGet(v, path) ==
    IF path = <<>> THEN v
    ELSE IF IsDict(v) THEN PathGet(Get(v, Head(path)), Tail(path))
    ELSE None

FirstMessage(o) ==
    LET m == PathGet(o, <<"messages">>) IN
    IF IsList(m) /\ m.items # <<>> THEN m.items[1] ELSE None

\* the seven probed locations of an item, in the claimed order
Locations(o) ==
    IF ~IsDict(o) THEN <<>>
    ELSE << PathGet(o, <<"outputs", "message", "message">>),
            PathGet(o, <<"outputs", "message", "text">>),
            PathGet(FirstMessage(o), <<"message">>),
            PathGet(o, <<"artifacts", "message">>),
            PathGet(o, <<"results", "message", "data", "text">>),
            PathGet(o, <<"results", "message", "text">>),
            PathGet(o, <<"results", "message", "default_value">>) >>

RECURSIVE AllLocations(_)
AllLocations(items) ==
    IF items = <<>> THEN <<>>
    ELSE Locations(Head(items)) \o AllLocations(Tail(items))

Qualifies(v) == IsStr(v) /\ v.s # <<>> /\ ~is_uuid(v.s)

FirstQualifying(vs) ==
    IF \E i \in 1..Len(vs) : Qualifies(vs[i])
    THEN vs[CHOOSE i \in 1..Len(vs) :
                Qualifies(vs[i]) /\ \A j \in 1..(i - 1) : ~Qualifies(vs[j])]
    ELSE NoCand

HasOutputsList(x) ==
    IsDict(x) /\ IsList(Get(x, "outputs")) /\ Get(x, "outputs").items # <<>>

\* C3: with a non-empty outputs list, the result is the (trimmed) first
\* non-empty non-UUID string among the probed locations, items in list order
\* and the seven locations in the stated order within an item.
C3_FirstLocationWins ==
    (stage # "start" /\ HasOutputsList(resp)
        /\ FirstQualifying(AllLocations(Get(resp, "outputs").items)) # NoCand) =>
        out = strip(FirstQualifying(AllLocations(Get(resp, "outputs").items)).s)

RECURSIVE Flatten(_), FlattenAll(_)
\* every string reachable through objects and lists, trimmed, depth first
Flatten(v) ==
    CASE v.t = "str"  -> <<strip(v.s)>>
      [] v.t = "dict" -> FlattenAll([i \in 1..Len(v.pairs) |-> v.pairs[i][2]])
      [] v.t = "list" -> FlattenAll(v.items)
      [] OTHER        -> <<>>

FlattenAll(vs) ==
    IF vs = <<>> THEN <<>> ELSE Flatten(Head(vs)) \o FlattenAll(Tail(vs))

LongEnough(s) == ~is_uuid(s) /\ Len(s) > 10

FirstLongest(q) ==
    IF q = <<>> THEN <<>>
    ELSE q[CHOOSE i \in 1..Len(q) :
              /\ \A j \in 1..Len(q) : Len(q[j]) <= Len(q[i])
              /\ \A j \in 1..(i - 1) : Len(q[j]) < Len(q[i])]

\* C7: when neither the structured path nor the shallow probe returns, the
\* result is the longest trimmed string that is not a UUID and is longer than
\* 10, the first such in depth-first order among equals, else the empty string.
C7_FallbackLongest ==
    stage = "fallback" => out = FirstLongest(SelectSeq(Flatten(resp), LongEnough))

C7_Witness ==
    /\ stage = "fallback"
    /\ out = Hello11
    /\ \E i, j \in 1..Len(Flatten(resp)) :
          i < j /\ Flatten(resp)[i] = Hello11 /\ Flatten(resp)[j] = HELLO11
    /\ \E i \in 1..Len(Flatten(resp)) : is_uuid(Flatten(resp)[i])

ShallowHit(v) == IsStr(v) /\ ~is_uuid(v.s)

\* C8: for an object on which the structured path produced nothing, the result
\* is the trimmed value of the first of message, text, output, result that
\* holds a non-UUID string, however short, whatever else the object holds.
C8_ShallowProbe ==
    (stage # "start" /\ IsDict(resp) /\ cand = NoCand) =>
        /\ ShallowHit(Get(resp, "message")) => out = strip(Get(resp, "message").s)
        /\ (~ShallowHit(Get(resp, "message")) /\ ShallowHit(Get(resp, "text"))) =>
              out = strip(Get(resp, "text").s)
        /\ (~ShallowHit(Get(resp, "message")) /\ ~ShallowHit(Get(resp, "text"))
              /\ ShallowHit(Get(resp, "output"))) =>
              out = strip(Get(resp, "output").s)
        /\ (~ShallowHit(Get(resp, "message")) /\ ~ShallowHit(Get(resp, "text"))
              /\ ~ShallowHit(Get(resp, "output")) /\ ShallowHit(Get(resp, "result"))) =>
              out = strip(Get(resp, "result").s)

C8_Witness ==
    /\ stage = "shallow"
    /\ Get(resp, "message") = Str(UuidUpper)
    /\ Get(resp, "text") = Num(7)
    /\ Get(resp, "output") = Str(GoodAt(3))
    /\ HasKey(resp, "data")
    /\ out = <<"g", "3">>

====
